---- MODULE Spec2Model ----
(***************************************************************************)
(* Model of the IDP KYC single-page application (src/src/App.jsx):         *)
(* the extraction pipeline (callGemini retry loop, localExtractor,         *)
(* parseDate, handleProcess) and the component state with its two effects  *)
(* (load on mount, write-through persist on [rawText, artifact]).          *)
(*                                                                         *)
(* Text is a sequence of one-character strings, so that the regular        *)
(* expressions of the source are matched character by character.           *)
(***************************************************************************)
EXTENDS Integers, Sequences, FiniteSets, TLC

----------------------------------------------------------------------------
(* Bounds of the model *)

\* number of handleProcess invocations that may start in one behaviour
MaxRuns == 2
\* number of lines of a document handed to the local extractor
MaxLines == 2

----------------------------------------------------------------------------
(* Character classes *)

Digits == {"0","1","2","3","4","5","6","7","8","9"}
Upper == {"A","B","C","D","E","F","G","H","I","J","K","L","M",
          "N","O","P","Q","R","S","T","U","V","W","X","Y","Z"}
Lower == {"a","b","c","d","e","f","g","h","i","j","k","l","m",
          "n","o","p","q","r","s","t","u","v","w","x","y","z"}
Letters == Upper \cup Lower
\* \s
WS == {" ", "\n", "\t"}
\* \w
WordChars == Letters \cup Digits \cup {"_"}

UpperOf == [c \in Lower |->
    CASE c = "a" -> "A" [] c = "b" -> "B" [] c = "c" -> "C" [] c = "d" -> "D"
      [] c = "e" -> "E" [] c = "f" -> "F" [] c = "g" -> "G" [] c = "h" -> "H"
      [] c = "i" -> "I" [] c = "j" -> "J" [] c = "k" -> "K" [] c = "l" -> "L"
      [] c = "m" -> "M" [] c = "n" -> "N" [] c = "o" -> "O" [] c = "p" -> "P"
      [] c = "q" -> "Q" [] c = "r" -> "R" [] c = "s" -> "S" [] c = "t" -> "T"
      [] c = "u" -> "U" [] c = "v" -> "V" [] c = "w" -> "W" [] c = "x" -> "X"
      [] c = "y" -> "Y" [] c = "z" -> "Z"]

\* the characters a class matches under the /i flag
CaseFold(set) ==
    set \cup {UpperOf[c] : c \in set \cap Lower}
        \cup {c \in Lower : UpperOf[c] \in set}

DigitVal == [c \in Digits |->
    CASE c = "0" -> 0 [] c = "1" -> 1 [] c = "2" -> 2 [] c = "3" -> 3
      [] c = "4" -> 4 [] c = "5" -> 5 [] c = "6" -> 6 [] c = "7" -> 7
      [] c = "8" -> 8 [] c = "9" -> 9]

----------------------------------------------------------------------------
(* JavaScript optional strings: undefined, or a string (possibly empty) *)

Undefined == [def |-> FALSE, val |-> <<>>]
Some(v) == [def |-> TRUE, val |-> v]
\* truthiness of string | undefined
Truthy(o) == o.def /\ o.val # <<>>
\* a || b
OrElse(a, b) == IF Truthy(a) THEN a ELSE b

----------------------------------------------------------------------------
(* A backtracking matcher for the regular expressions of the source.       *)
(* A pattern is a sequence of items [set, min, max]; max = -1 is unbounded.*)
(* Every quantifier of the source is greedy.                               *)

Item(set, min, max) == [set |-> set, min |-> min, max |-> max]
One(set) == Item(set, 1, 1)
Opt(set) == Item(set, 0, 1)
Star(set) == Item(set, 0, -1)
Plus(set) == Item(set, 1, -1)
\* a literal letter under /i
Ch(c) == One(CaseFold({c}))

\* the element of a singleton; {e(x) : x \in {v}} evaluates v once and names it x
The(S) == CHOOSE x \in S : TRUE

MaxOf(S) == CHOOSE n \in S : \A m \in S : m <= n
MinOf(S) == CHOOSE n \in S : \A m \in S : n <= m

\* longest run of characters of set starting at pos, at most max long
RunLen(set, max, s, pos) ==
    LET cap == IF max < 0 \/ max > Len(s) - pos + 1 THEN Len(s) - pos + 1 ELSE max
    IN  MaxOf({n \in 0..cap : \A i \in pos..(pos + n - 1) : s[i] \in set})

NoMatch == [ok |-> FALSE, lens |-> <<>>]

RECURSIVE MatchFrom(_, _, _, _), TryLen(_, _, _, _, _)
\* match items k.. of re at position pos of s; lens are the lengths taken
MatchFrom(re, k, s, pos) ==
    IF k > Len(re) THEN [ok |-> TRUE, lens |-> <<>>]
    ELSE TryLen(re, k, s, pos, RunLen(re[k].set, re[k].max, s, pos))

\* item k takes n characters if the rest then matches, else one fewer
TryLen(re, k, s, pos, n) ==
    IF n < re[k].min THEN NoMatch
    ELSE The({IF rest.ok THEN [ok |-> TRUE, lens |-> <<n>> \o rest.lens]
                         ELSE TryLen(re, k, s, pos, n - 1) :
                rest \in {MatchFrom(re, k + 1, s, pos + n)}})

\* String.prototype.match without /g: the leftmost match, or none
RegexMatch(re, s) ==
    The({IF starts = {} THEN [ok |-> FALSE, pos |-> 0, lens |-> <<>>]
         ELSE The({[ok |-> TRUE, pos |-> p, lens |-> MatchFrom(re, 1, s, p).lens] :
                     p \in {MinOf(starts)}}) :
           starts \in {{q \in 1..(Len(s) + 1) : MatchFrom(re, 1, s, q).ok}}})

RECURSIVE SumTo(_, _)
SumTo(lens, k) == IF k = 0 THEN 0 ELSE lens[k] + SumTo(lens, k - 1)

\* the text matched by item k of a successful match m
Group(m, s, k) ==
    LET from == m.pos + SumTo(m.lens, k - 1)
    IN  SubSeq(s, from, from + m.lens[k] - 1)

\* String.prototype.trim
Trim(s) ==
    LET keep == {i \in 1..Len(s) : s[i] \notin WS}
    IN  IF keep = {} THEN <<>> ELSE SubSeq(s, MinOf(keep), MaxOf(keep))

\* text.match(re)?.[1]?.trim() where the capture group is item k
Capture(re, k, s) ==
    The({IF m.ok THEN Some(Trim(Group(m, s, k))) ELSE Undefined :
           m \in {RegexMatch(re, s)}})

----------------------------------------------------------------------------
(* parseDate *)

DateSep == {"-", "/", "."}

\* /(\d{4})[-/.](\d{2})[-/.](\d{2})/
isoPattern ==
    <<Item(Digits, 4, 4), One(DateSep), Item(Digits, 2, 2), One(DateSep),
      Item(Digits, 2, 2)>>

\* /(\d{1,2})\s+([A-Za-z]{3,})\s+(\d{4})/
friendlyPattern ==
    <<Item(Digits, 1, 2), Plus(WS), Item(Letters, 3, -1), Plus(WS),
      Item(Digits, 4, 4)>>

LowerOf(c) == IF c \in Upper THEN CHOOSE l \in Lower : UpperOf[l] = c ELSE c

\* month names as the Date constructor reads them: by their first three
\* letters, case-insensitively; 0 when the word names no month
MonthOf(word) ==
    LET w == <<LowerOf(word[1]), LowerOf(word[2]), LowerOf(word[3])>>
    IN  CASE w = <<"j","a","n">> -> 1  [] w = <<"f","e","b">> -> 2
          [] w = <<"m","a","r">> -> 3  [] w = <<"a","p","r">> -> 4
          [] w = <<"m","a","y">> -> 5  [] w = <<"j","u","n">> -> 6
          [] w = <<"j","u","l">> -> 7  [] w = <<"a","u","g">> -> 8
          [] w = <<"s","e","p">> -> 9  [] w = <<"o","c","t">> -> 10
          [] w = <<"n","o","v">> -> 11 [] w = <<"d","e","c">> -> 12
          [] OTHER -> 0

RECURSIVE NumVal(_)
NumVal(ds) ==
    IF ds = <<>> THEN 0
    ELSE 10 * NumVal(SubSeq(ds, 1, Len(ds) - 1)) + DigitVal[ds[Len(ds)]]

DigitOf(n) == CHOOSE c \in Digits : DigitVal[c] = n
\* String(n).padStart(2, '0') for 0 <= n <= 99
Pad2(n) == <<DigitOf(n \div 10), DigitOf(n % 10)>>

IsLeap(y) == (y % 4 = 0 /\ y % 100 # 0) \/ y % 400 = 0
DaysInMonth(y, m) ==
    IF m = 2 THEN (IF IsLeap(y) THEN 29 ELSE 28)
    ELSE IF m \in {4, 6, 9, 11} THEN 30 ELSE 31

\* new Date(`${mName} ${d}, ${y}`) read back with getFullYear, getMonth and
\* getDate: a day up to 31 past the end of the month rolls into the next one
FriendlyDate(d, mName, y) ==
    LET month == MonthOf(mName)
        day   == NumVal(d)
        year  == NumVal(y)
    IN  IF month = 0 \/ day < 1 \/ day > 31 THEN Undefined
        ELSE IF day <= DaysInMonth(year, month)
             THEN Some(y \o <<"-">> \o Pad2(month) \o <<"-">> \o Pad2(day))
             ELSE Some(y \o <<"-">> \o Pad2(month + 1) \o <<"-">>
                         \o Pad2(day - DaysInMonth(year, month)))

parseDate(value) ==
    IF value = <<>> THEN Undefined
    ELSE The({
        IF isoMatch.ok
        THEN Some(Group(isoMatch, v, 1) \o <<"-">>
                  \o Group(isoMatch, v, 3) \o <<"-">>
                  \o Group(isoMatch, v, 5))
        ELSE The({
            IF friendlyMatch.ok
            THEN The({FriendlyDate(d, mName, y) :
                        d \in {Group(friendlyMatch, v, 1)},
                        mName \in {Group(friendlyMatch, v, 3)},
                        y \in {Group(friendlyMatch, v, 5)}})
            ELSE Undefined :
              friendlyMatch \in {RegexMatch(friendlyPattern, v)}}) :
          v \in {value}, isoMatch \in {RegexMatch(isoPattern, value)}})

----------------------------------------------------------------------------
(* localExtractor *)

RECURSIVE Lit(_)
\* a literal word under /i
Lit(w) == IF w = <<>> THEN <<>> ELSE <<Ch(Head(w))>> \o Lit(Tail(w))

LabelSep == {":", "-"}
NameChars == Letters \cup {" ", ",", ".", "'", "-"}
IdChars == CaseFold(Upper \cup Digits)
DateChars == WordChars \cup WS \cup {".", "-"}

\* /Name\s*[:\-]\s*([A-Za-z ,.'-]+)/i
NamePattern ==
    Lit(<<"n","a","m","e">>) \o
    <<Star(WS), One(LabelSep), Star(WS), Plus(NameChars)>>

\* /Passport\s*No\.?\s*[:\-]?\s*([A-Z0-9]+)/i
PassportPattern ==
    Lit(<<"p","a","s","s","p","o","r","t">>) \o <<Star(WS)>> \o
    Lit(<<"n","o">>) \o
    <<Opt({"."}), Star(WS), Opt(LabelSep), Star(WS), Plus(IdChars)>>

\* /Document\s*ID\s*[:\-]\s*([A-Z0-9]+)/i
DocumentIdPattern ==
    Lit(<<"d","o","c","u","m","e","n","t">>) \o <<Star(WS)>> \o
    Lit(<<"i","d">>) \o
    <<Star(WS), One(LabelSep), Star(WS), Plus(IdChars)>>

\* /Issue\s*Date\s*[:\-]\s*([\w\s.-]+)/i
IssueDatePattern ==
    Lit(<<"i","s","s","u","e">>) \o <<Star(WS)>> \o
    Lit(<<"d","a","t","e">>) \o
    <<Star(WS), One(LabelSep), Star(WS), Plus(DateChars)>>

\* /Issued\s*on\s*([\w\s.-]+)/i
IssuedOnPattern ==
    Lit(<<"i","s","s","u","e","d">>) \o <<Star(WS)>> \o
    Lit(<<"o","n">>) \o
    <<Star(WS), Plus(DateChars)>>

\* the capture group is the last item of each label pattern
LastCapture(re, s) == Capture(re, Len(re), s)

\* capture || '' as handed to parseDate
OrEmpty(o) == IF Truthy(o) THEN o.val ELSE <<>>

UNKNOWN == <<"U","N","K","N","O","W","N">>
LocalSource == "local-extractor"

\* value ?? 'UNKNOWN': an empty capture is kept
OrUnknown_nullish(o) == IF o.def THEN o.val ELSE UNKNOWN
\* value || 'UNKNOWN'
OrUnknown(o) == IF Truthy(o) THEN o.val ELSE UNKNOWN

\* the two alternatives consulted in the other order
FirstDate_issuedOnFirst(a, b) ==
    The({IF Truthy(first) THEN first ELSE parseDate(OrEmpty(a)) :
           first \in {parseDate(OrEmpty(b))}})
\* parseDate(a || '') || parseDate(b || '')
FirstDate(a, b) ==
    The({IF Truthy(first) THEN first ELSE parseDate(OrEmpty(b)) :
           first \in {parseDate(OrEmpty(a))}})

localExtractor(text) ==
    The({[applicantName |-> OrUnknown(name),
          documentId |-> OrUnknown(passport),
          issueDate |-> OrUnknown(date),
          source |-> LocalSource] :
           name \in {LastCapture(NamePattern, text)},
           passport \in {The({OrElse(p1, p2) :
                                p1 \in {LastCapture(PassportPattern, text)},
                                p2 \in {LastCapture(DocumentIdPattern, text)}})},
           date \in {The({FirstDate(d1, d2) :
                            d1 \in {LastCapture(IssueDatePattern, text)},
                            d2 \in {LastCapture(IssuedOnPattern, text)}})}})

----------------------------------------------------------------------------
(* Document texts the user may hold in the textarea *)

DEFAULT_TEXT ==
    <<"-","-","-"," ","P","a","s","s","p","o","r","t"," ","O","C","R"," ","M","o","c","k"," ","D","a","t","a"," ","-","-","-","\n">> \o
    <<"N","a","m","e",":"," ","J","a","n","e"," ","D","o","e","\n">> \o
    <<"P","a","s","s","p","o","r","t"," ","N","o",":"," ","X","1","2","3","4","5","6","7","\n">> \o
    <<"N","a","t","i","o","n","a","l","i","t","y",":"," ","U","S","A","\n">> \o
    <<"I","s","s","u","e"," ","D","a","t","e",":"," ","2","0","2","1","-","0","5","-","1","7","\n">> \o
    <<"E","x","p","i","r","y"," ","D","a","t","e",":"," ","2","0","3","1","-","0","5","-","1","6","\n">> \o
    <<"P","l","a","c","e"," ","o","f"," ","I","s","s","u","e",":"," ","W","a","s","h","i","n","g","t","o","n"," ","D",".","C",".">>

EmptyText == <<>>

\* "Document ID: AB12\nIssued on 17 May 2021"
DocIdText ==
    <<"D","o","c","u","m","e","n","t"," ","I","D",":"," ","A","B","1","2","\n">> \o
    <<"I","s","s","u","e","d"," ","o","n"," ","1","7"," ","M","a","y"," ","2","0","2","1">>

Texts == {DEFAULT_TEXT, EmptyText, DocIdText}

\* localExtractor(t) for every document text, computed once
Extracted == [t \in Texts |-> localExtractor(t)]

----------------------------------------------------------------------------
(* Documents for the local extractor: up to MaxLines lines joined by "\n" *)

\* "Name: Al"
LineName == <<"N","a","m","e",":"," ","A","l">>
\* "Name:  "
LineNameBlank == <<"N","a","m","e",":"," "," ">>
\* "name - O'Neil, J."
LineNameFull == <<"n","a","m","e"," ","-"," ","O","'","N","e","i","l",","," ","J",".">>
\* "Passport No: X1"
LinePassport == <<"P","a","s","s","p","o","r","t"," ","N","o",":"," ","X","1">>
\* "passport no.-x9"
LinePassportLower == <<"p","a","s","s","p","o","r","t"," ","n","o",".","-","x","9">>
\* "Passport No."
LinePassportBare == <<"P","a","s","s","p","o","r","t"," ","N","o",".">>
\* "Document ID: AB12"
LineDocumentId == <<"D","o","c","u","m","e","n","t"," ","I","D",":"," ","A","B","1","2">>
\* "Document ID AB12"
LineDocumentIdNoSep == <<"D","o","c","u","m","e","n","t"," ","I","D"," ","A","B","1","2">>
\* "Issue Date: 2021.05-17"
LineIssueIso == <<"I","s","s","u","e"," ","D","a","t","e",":"," ","2","0","2","1",".","0","5","-","1","7">>
\* "Issue Date: soon"
LineIssueWords == <<"I","s","s","u","e"," ","D","a","t","e",":"," ","s","o","o","n">>
\* "Issue Date:  "
LineIssueBlank == <<"I","s","s","u","e"," ","D","a","t","e",":"," "," ">>
\* "Issued on 17 May 2021"
LineIssuedOn == <<"I","s","s","u","e","d"," ","o","n"," ","1","7"," ","M","a","y"," ","2","0","2","1">>
\* "Issued on 31 Feb 2021"
LineIssuedRoll == <<"I","s","s","u","e","d"," ","o","n"," ","3","1"," ","F","e","b"," ","2","0","2","1">>
\* "Issued on 5 Foo 2021"
LineIssuedBadMonth == <<"I","s","s","u","e","d"," ","o","n"," ","5"," ","F","o","o"," ","2","0","2","1">>
\* "Nationality: USA"
LineOther == <<"N","a","t","i","o","n","a","l","i","t","y",":"," ","U","S","A">>

Lines ==
    {LineName,
     LineNameBlank,
     LineNameFull,
     LinePassport,
     LinePassportLower,
     LinePassportBare,
     LineDocumentId,
     LineDocumentIdNoSep,
     LineIssueIso,
     LineIssueWords,
     LineIssueBlank,
     LineIssuedOn,
     LineIssuedRoll,
     LineIssuedBadMonth,
     LineOther}

RECURSIVE Docs(_)
\* the documents of exactly n lines
Docs(n) ==
    IF n = 0 THEN {<<>>}
    ELSE IF n = 1 THEN Lines
    ELSE {d \o <<"\n">> \o l : d \in Docs(n - 1), l \in Lines}

Documents == UNION {Docs(n) : n \in 0..MaxLines}

----------------------------------------------------------------------------
(* JavaScript values: the parsed remote payload and the artifact.          *)
(* An object is a function from its keys to their values.                  *)

Null == [kind |-> "null", fields |-> <<>>]
Obj(f) == [kind |-> "object", fields |-> f]
Prim(k) == [kind |-> k, fields |-> <<>>]

\* truthiness of a parsed JSON value
JsTruthy(v) == v.kind \notin {"null", "false", "zero", "emptystr"}
\* {...v}: the own enumerable properties; a number or a boolean has none
Spread(v) == IF v.kind = "object" THEN v.fields ELSE <<>>

SchemaFields == {"applicantName", "documentId", "issueDate"}
GeminiSource == "gemini-2.5-flash-preview-09-2025"

SampleFields ==
    [applicantName |-> <<"J","o","e">>,
     documentId |-> <<"Z","9">>,
     issueDate |-> <<"2","0","2","0","-","0","1","-","0","2">>]

\* values the remote text may parse to
PFull == Obj(SampleFields)
PWithSource == Obj(("source" :> "model-says-so") @@ SampleFields)
PWithMeta == Obj(("rawText" :> <<"x">>) @@ ("processedAt" :> "never") @@ SampleFields)
PExtra == Obj(("nationality" :> <<"U","S","A">>) @@ SampleFields)
PEmptyObj == Obj(<<>>)
PNull == Null
PFalse == Prim("false")
PZero == Prim("zero")
PEmptyStr == Prim("emptystr")

Payloads ==
    {PFull, PWithSource, PWithMeta, PExtra, PEmptyObj,
     PNull, PFalse, PZero, PEmptyStr}

----------------------------------------------------------------------------
(* One remote attempt (callGemini, the body of the try block) *)

Response(net, httpOk, body, text, value) ==
    [net |-> net, httpOk |-> httpOk, body |-> body, text |-> text, value |-> value]

\* what the transport may answer to one request
Responses ==
    {Response("rejects", FALSE, "none", "absent", Null),
     Response("resolves", FALSE, "json", "absent", Null),
     Response("resolves", TRUE, "notjson", "absent", Null),
     Response("resolves", TRUE, "json", "absent", Null),
     Response("resolves", TRUE, "json", "empty", Null),
     Response("resolves", TRUE, "json", "garbage", Null)}
    \cup {Response("resolves", TRUE, "json", "json", p) : p \in Payloads}

ErrFetch == "fetch rejected"
ErrStatus == "Gemini request failed with status"
ErrBody == "response.json() rejected"
ErrEmpty == "Gemini returned an empty response"
ErrParse == "JSON.parse SyntaxError"

Returned(v) == [kind |-> "value", value |-> v, error |-> ""]
Threw(e) == [kind |-> "threw", value |-> Null, error |-> e]

\* the try block: fetch, response.ok, response.json(), the text, JSON.parse
Attempt(resp) ==
    IF resp.net = "rejects" THEN Threw(ErrFetch)
    ELSE IF ~resp.httpOk THEN Threw(ErrStatus)
    ELSE IF resp.body = "notjson" THEN Threw(ErrBody)
    ELSE IF resp.text \in {"absent", "empty"} THEN Threw(ErrEmpty)
    ELSE IF resp.text = "garbage" THEN Threw(ErrParse)
    ELSE Returned(resp.value)

maxAttempts == 3
InitialDelayMs == 500
\* a backoff that never grows
NextDelay_constant(d) == d
\* delayMs *= 2
NextDelay(d) == d * 2
\* if (attempt === maxAttempts) throw error
LastAttempt(a) == a = maxAttempts

\* a loop that also retries when the parsed value is falsy
LoopStep_retriesFalsy(outcome, a) ==
    IF outcome.kind = "value" /\ JsTruthy(outcome.value) THEN "return"
    ELSE IF LastAttempt(a) THEN "throw"
    ELSE "retry"
\* one iteration of the for loop: return JSON.parse(text) leaves the loop,
\* the catch block rethrows on the last attempt and retries otherwise
LoopStep(outcome, a) ==
    IF outcome.kind = "value" THEN "return"
    ELSE IF LastAttempt(a) THEN "throw"
    ELSE "retry"

\* the error caught by the previous iteration is thrown at the end
Rethrown_previous(caught) == caught[1]
\* throw error: the binding of the catch block that is running; caught is
\* the error of the previous attempt followed by the error just caught
Rethrown(caught) == caught[Len(caught)]

\* callGemini without its guard
NoCredential_unchecked(key) == FALSE
\* if (!apiKey) return null
NoCredential(key) == key = ""

----------------------------------------------------------------------------
(* handleProcess after callGemini has settled *)

MsgReady == "Ready to extract structured fields from your document text."
MsgLoaded == "Loaded saved artifact from localStorage."
MsgProcessing == "Processing document with IDP extraction pipeline..."
MsgGemini == "Extraction completed using the Gemini API."
MsgNoKey == "Gemini API key not provided; used offline extractor."
MsgUnavailable == "Gemini API unavailable; used local extractor with the latest document text."
MsgBuiltIn == "Extraction completed with the built-in parser (offline fallback)."

Status(tone, message) == [tone |-> tone, message |-> message]

\* the two fallback reasons exchanged
Structure_reasonsSwapped(outcome, text) ==
    IF outcome.kind = "value" /\ JsTruthy(outcome.value)
    THEN [structured |-> ("source" :> GeminiSource) @@ Spread(outcome.value),
          usedGemini |-> TRUE, usedLocal |-> FALSE, fallbackReason |-> ""]
    ELSE IF outcome.kind = "value"
    THEN [structured |-> Extracted[text],
          usedGemini |-> FALSE, usedLocal |-> TRUE, fallbackReason |-> MsgUnavailable]
    ELSE [structured |-> Extracted[text],
          usedGemini |-> FALSE, usedLocal |-> TRUE, fallbackReason |-> MsgNoKey]

\* { source: ..., ...llmResult }: a source key of the payload wins
Structure_payloadWins(outcome, text) ==
    IF outcome.kind = "value" /\ JsTruthy(outcome.value)
    THEN [structured |-> Spread(outcome.value) @@ ("source" :> GeminiSource),
          usedGemini |-> TRUE, usedLocal |-> FALSE, fallbackReason |-> ""]
    ELSE IF outcome.kind = "value"
    THEN [structured |-> Extracted[text],
          usedGemini |-> FALSE, usedLocal |-> TRUE, fallbackReason |-> MsgNoKey]
    ELSE [structured |-> Extracted[text],
          usedGemini |-> FALSE, usedLocal |-> TRUE, fallbackReason |-> MsgUnavailable]

\* the try/catch around callGemini: structured, usedGemini, fallbackReason
Structure(outcome, text) ==
    IF outcome.kind = "value" /\ JsTruthy(outcome.value)
    THEN [structured |-> ("source" :> GeminiSource) @@ Spread(outcome.value),
          usedGemini |-> TRUE, usedLocal |-> FALSE, fallbackReason |-> ""]
    ELSE IF outcome.kind = "value"
    THEN [structured |-> Extracted[text],
          usedGemini |-> FALSE, usedLocal |-> TRUE, fallbackReason |-> MsgNoKey]
    ELSE [structured |-> Extracted[text],
          usedGemini |-> FALSE, usedLocal |-> TRUE, fallbackReason |-> MsgUnavailable]

\* new Date().toISOString()
Timestamp(now) == ToString(now)

\* { ...structured, rawText, processedAt, id: Date.now() }: a per-run id
BuildResult_withId(structured, text, now) ==
    Obj(("id" :> now) @@ ("rawText" :> text) @@ ("processedAt" :> Timestamp(now))
        @@ structured)
\* { rawText, processedAt, ...structured }: keys of structured win
BuildResult_structuredWins(structured, text, now) ==
    Obj(structured @@ ("rawText" :> text) @@ ("processedAt" :> Timestamp(now)))
\* { ...structured, rawText, processedAt }
BuildResult(structured, text, now) ==
    Obj(("rawText" :> text) @@ ("processedAt" :> Timestamp(now)) @@ structured)

\* the fallback reason is not consulted
FinalStatus_reasonDropped(usedGemini, fallbackReason) ==
    IF usedGemini THEN Status("success", MsgGemini)
    ELSE Status("success", MsgBuiltIn)
\* a fallback that reports nothing: the status stays as handleProcess set it
FinalStatus_silentFallback(usedGemini, fallbackReason) ==
    IF usedGemini THEN Status("success", MsgGemini)
    ELSE Status("info", MsgProcessing)
\* the status set at the end of handleProcess
FinalStatus(usedGemini, fallbackReason) ==
    IF usedGemini THEN Status("success", MsgGemini)
    ELSE IF fallbackReason # "" THEN Status("warning", fallbackReason)
    ELSE Status("success", MsgBuiltIn)

----------------------------------------------------------------------------
(* localStorage under STORAGE_KEY *)

Slot(kind, text, art) == [kind |-> kind, rawText |-> text, artifact |-> art]
SlotMissing == Slot("missing", <<>>, Null)
SlotMalformed == Slot("malformed", <<>>, Null)
\* the text "null": valid JSON that is not an object
SlotJsonNull == Slot("jsonnull", <<>>, Null)

\* JSON.stringify({ rawText, artifact })
JSONstringify(text, art) == Slot("pair", text, art)

\* an effect that depends on [artifact] only
PersistEffect_artifactOnly(cur, text, art, ok) ==
    [slot |-> IF ok /\ (cur.kind # "pair" \/ art # cur.artifact)
              THEN JSONstringify(text, art) ELSE cur,
     uncaught |-> FALSE]

\* setItem outside any try/catch
PersistEffect_uncaught(cur, text, art, ok) ==
    [slot |-> IF ok THEN JSONstringify(text, art) ELSE cur,
     uncaught |-> ~ok]

\* the persist effect: setItem inside try/catch; a throwing setItem leaves
\* the slot as it was and the error is caught
PersistEffect(cur, text, art, ok) ==
    [slot |-> IF ok THEN JSONstringify(text, art) ELSE cur,
     uncaught |-> FALSE]

\* the load effect without its try/catch
LoadEffect_uncaught(cur, readOk) ==
    LET nothing(found) == [setRawText |-> FALSE, rawText |-> <<>>,
                           setArtifact |-> FALSE, artifact |-> Null,
                           read |-> found, uncaught |-> TRUE]
    IN  IF ~readOk THEN nothing("unreadable")
        ELSE IF cur.kind = "missing"
        THEN [nothing("missing") EXCEPT !.uncaught = FALSE]
        ELSE IF cur.kind = "malformed" THEN nothing("malformed")
        ELSE IF cur.kind = "jsonnull" THEN nothing("jsonnull")
        ELSE [setRawText |-> cur.rawText # <<>>, rawText |-> cur.rawText,
              setArtifact |-> cur.artifact.kind # "null", artifact |-> cur.artifact,
              read |-> "pair", uncaught |-> FALSE]

\* the load effect: which setters it calls and with what; every throw inside
\* the try block is caught; read is what the effect found in the slot
LoadEffect(cur, readOk) ==
    LET nothing(found) == [setRawText |-> FALSE, rawText |-> <<>>,
                           setArtifact |-> FALSE, artifact |-> Null,
                           read |-> found, uncaught |-> FALSE]
    IN  IF ~readOk THEN nothing("unreadable")                   \* getItem throws
        ELSE IF cur.kind = "missing" THEN nothing("missing")    \* if (cached)
        ELSE IF cur.kind = "malformed" THEN nothing("malformed")  \* JSON.parse throws
        ELSE IF cur.kind = "jsonnull" THEN nothing("jsonnull")  \* parsed.rawText throws
        ELSE [setRawText |-> cur.rawText # <<>>, rawText |-> cur.rawText,
              setArtifact |-> cur.artifact.kind # "null", artifact |-> cur.artifact,
              read |-> "pair", uncaught |-> FALSE]

----------------------------------------------------------------------------
(* State *)

VARIABLES
    rawText,        \* useState: the textarea content
    artifact,       \* useState: the latest artifact, or Null
    status,         \* useState: [tone, message]
    processing,     \* useState: the in-flight flag
    apiKey,         \* import.meta.env.VITE_GEMINI_API_KEY || ''
    slot,           \* localStorage[STORAGE_KEY]
    phase,          \* "mounting" (rendered, effects pending), "mounted", "crashed"
    pc,             \* handleProcess: "idle", "fetching", "delaying"
    attempt,        \* callGemini: loop counter
    delayMs,        \* callGemini: current backoff
    runText,        \* rawText as closed over by the running handleProcess
    requests,       \* fetch calls issued by the current/last callGemini
    delays,         \* delay(ms) calls taken by the current/last callGemini
    failed,         \* attempts of the current/last callGemini that failed
    callResult,     \* how the last callGemini settled: "none", "pending", "null", "value", "threw"
    returned,       \* the value the last callGemini returned
    lastError,      \* error of the latest failed attempt of a call that has not returned
    thrown,         \* the error the last callGemini threw to handleProcess, or ""
    usedLocal,      \* whether the run just completed called localExtractor
    completed,      \* a handleProcess run has just completed
    inFlight,       \* handleProcess invocations started and not yet completed
    writeFailed,    \* the latest setItem threw
    loadRead,       \* what the load effect of this page found in the slot
    now,            \* clock read by new Date()
    runs            \* handleProcess invocations started

vars == <<rawText, artifact, status, processing, apiKey, slot, phase, pc,
          attempt, delayMs, runText, requests, delays, failed, callResult,
          returned, lastError, thrown, usedLocal, completed,
          inFlight, writeFailed, loadRead, now, runs>>

component == <<rawText, artifact, status, processing>>
call == <<pc, attempt, delayMs, runText, requests, delays, failed, callResult,
          returned, lastError, thrown>>

\* a button that stays enabled
ButtonDisabled_never == FALSE
\* disabled={processing} on the button
ButtonDisabled == processing
\* a textarea that stays enabled
TextareaDisabled_never == FALSE
\* disabled={processing} on the textarea
TextareaDisabled == processing

Init ==
    /\ rawText = DEFAULT_TEXT
    /\ artifact = Null
    /\ status = Status("info", MsgReady)
    /\ processing = FALSE
    /\ apiKey \in {"", "key"}
    /\ slot \in {SlotMissing, SlotMalformed, SlotJsonNull}
    /\ phase = "mounting"
    /\ pc = "idle"
    /\ attempt = 0
    /\ delayMs = 0
    /\ runText = <<>>
    /\ requests = 0
    /\ delays = <<>>
    /\ failed = 0
    /\ callResult = "none"
    /\ returned = Null
    /\ lastError = ""
    /\ thrown = ""
    /\ usedLocal = FALSE
    /\ completed = FALSE
    /\ inFlight = 0
    /\ writeFailed = FALSE
    /\ loadRead = "none"
    /\ now = 1
    /\ runs = 0

\* the observations of the last run are dropped at the next user event
Forget ==
    /\ runText' = <<>>
    /\ requests' = 0
    /\ delays' = <<>>
    /\ failed' = 0
    /\ callResult' = "none"
    /\ returned' = Null
    /\ lastError' = ""
    /\ thrown' = ""
    /\ usedLocal' = FALSE
    /\ completed' = FALSE

\* the persist effect after a commit that changed rawText or artifact
Persist(text, art, ok) ==
    LET eff == PersistEffect(slot, text, art, ok)
    IN  /\ slot' = eff.slot
        /\ writeFailed' = ~ok
        /\ phase' = IF eff.uncaught THEN "crashed" ELSE "mounted"

\* first commit: the load effect, then the persist effect with the values of
\* the first render; if the load changed rawText or artifact, a second commit
\* and the persist effect again
Mount ==
    /\ phase = "mounting"
    /\ \E readOk \in BOOLEAN, ok1 \in BOOLEAN, ok2 \in BOOLEAN :
         LET load == LoadEffect(slot, readOk)
             text == IF load.setRawText THEN load.rawText ELSE rawText
             art  == IF load.setArtifact THEN load.artifact ELSE artifact
             again == text # rawText \/ art # artifact
             first == PersistEffect(slot, rawText, artifact, ok1)
             second == IF again THEN PersistEffect(first.slot, text, art, ok2)
                       ELSE first
         IN  /\ again \/ ok2
             /\ rawText' = text
             /\ artifact' = art
             /\ status' = IF load.setArtifact THEN Status("success", MsgLoaded)
                          ELSE status
             /\ slot' = second.slot
             /\ writeFailed' = IF again THEN ~ok2 ELSE ~ok1
             /\ loadRead' = load.read
             /\ phase' = IF load.uncaught \/ first.uncaught \/ second.uncaught
                         THEN "crashed" ELSE "mounted"
    /\ UNCHANGED <<processing, apiKey, call, usedLocal, completed, inFlight,
                   now, runs>>

\* onChange of the textarea
Edit(t) ==
    /\ phase = "mounted"
    /\ ~TextareaDisabled
    /\ t # rawText
    /\ rawText' = t
    /\ \E ok \in BOOLEAN : Persist(t, artifact, ok)
    /\ Forget
    /\ UNCHANGED <<artifact, status, processing, apiKey, pc, attempt, delayMs,
                   inFlight, loadRead, now, runs>>

\* handleProcess from the settling of callGemini to its end, with the commit
\* and the persist effect that follow
Finish(outcome, text) ==
    \E s \in {Structure(outcome, text)} :
      \E result \in {BuildResult(s.structured, text, now)} :
        /\ artifact' = result
        /\ status' = FinalStatus(s.usedGemini, s.fallbackReason)
        /\ processing' = FALSE
        /\ usedLocal' = s.usedLocal
        /\ completed' = TRUE
        /\ now' = now + 1
        /\ pc' = "idle"
        /\ attempt' = 0
        /\ delayMs' = 0
        /\ \E ok \in BOOLEAN : Persist(rawText, result, ok)
        /\ returned' = outcome.value
        /\ UNCHANGED <<rawText, apiKey, loadRead>>

\* onClick of the button: handleProcess up to its first suspension. Without a
\* credential callGemini returns null at once and the run completes before
\* any other event is handled.
Click ==
    /\ phase = "mounted"
    /\ ~ButtonDisabled
    /\ runs < MaxRuns
    /\ runs' = runs + 1
    /\ failed' = 0
    /\ delays' = <<>>
    /\ lastError' = ""
    /\ thrown' = ""
    /\ runText' = rawText
    /\ IF NoCredential(apiKey)
       THEN /\ requests' = 0
            /\ callResult' = "null"
            /\ UNCHANGED inFlight
            /\ Finish(Returned(Null), rawText)
       ELSE /\ processing' = TRUE
            /\ status' = Status("info", MsgProcessing)
            /\ attempt' = 1
            /\ delayMs' = InitialDelayMs
            /\ requests' = 1
            /\ callResult' = "pending"
            /\ returned' = Null
            /\ pc' = "fetching"
            /\ inFlight' = inFlight + 1
            /\ completed' = FALSE
            /\ UNCHANGED <<rawText, artifact, apiKey, slot, phase, usedLocal,
                           writeFailed, loadRead, now>>

\* the pending request settles with resp
FetchSettles(resp) ==
    /\ phase = "mounted"
    /\ pc = "fetching"
    /\ LET outcome == Attempt(resp)
           step == LoopStep(outcome, attempt)
       IN  IF step = "return"
           THEN /\ callResult' = "value"
                /\ inFlight' = inFlight - 1
                /\ lastError' = ""
                /\ Finish(outcome, runText)
                /\ UNCHANGED <<runText, requests, delays, failed, thrown, runs>>
           ELSE IF step = "throw"
           THEN /\ callResult' = "threw"
                /\ failed' = failed + 1
                /\ lastError' = outcome.error
                /\ thrown' = Rethrown(<<lastError, outcome.error>>)
                /\ inFlight' = inFlight - 1
                /\ Finish(Threw(thrown'), runText)
                /\ UNCHANGED <<runText, requests, delays, runs>>
           ELSE /\ pc' = "delaying"
                /\ failed' = IF outcome.kind = "threw" THEN failed + 1 ELSE failed
                /\ lastError' = outcome.error
                /\ delays' = Append(delays, delayMs)
                /\ UNCHANGED <<component, apiKey, slot, phase, attempt, delayMs,
                               runText, requests, callResult, returned, thrown,
                               usedLocal, completed, inFlight, writeFailed,
                               loadRead, now, runs>>

\* the backoff timer fires: delayMs *= 2, attempt += 1, the next fetch
DelayElapses ==
    /\ phase = "mounted"
    /\ pc = "delaying"
    /\ delayMs' = NextDelay(delayMs)
    /\ attempt' = attempt + 1
    /\ requests' = requests + 1
    /\ pc' = "fetching"
    /\ UNCHANGED <<component, apiKey, slot, phase, runText, delays, failed,
                   callResult, returned, lastError, thrown, usedLocal,
                   completed, inFlight, writeFailed, loadRead, now, runs>>

\* the page is reloaded: a fresh component, the slot survives, a pending
\* request of the old page is dropped
Reload ==
    /\ phase # "mounting"
    /\ rawText' = DEFAULT_TEXT
    /\ artifact' = Null
    /\ status' = Status("info", MsgReady)
    /\ processing' = FALSE
    /\ phase' = "mounting"
    /\ pc' = "idle"
    /\ attempt' = 0
    /\ delayMs' = 0
    /\ Forget
    /\ inFlight' = 0
    /\ loadRead' = "none"
    /\ UNCHANGED <<apiKey, slot, writeFailed, now, runs>>

Next ==
    \/ Mount
    \/ \E t \in Texts : Edit(t)
    \/ Click
    \/ \E resp \in Responses : FetchSettles(resp)
    \/ DelayElapses
    \/ Reload

Spec == Init /\ [][Next]_vars

----------------------------------------------------------------------------
(* One page lifetime under the scheduling the runtime provides: a pending  *)
(* fetch promise settles and a pending setTimeout fires.                   *)

\* the documents the user switches between in this specification
LiveTexts == {DEFAULT_TEXT, DocIdText}

LiveNext ==
    \/ Mount
    \/ \E t \in LiveTexts : Edit(t)
    \/ Click
    \/ \E resp \in Responses : FetchSettles(resp)
    \/ DelayElapses

LiveSpec ==
    /\ Init
    /\ [][LiveNext]_vars
    /\ WF_vars(\E resp \in Responses : FetchSettles(resp))
    /\ WF_vars(DelayElapses)

----------------------------------------------------------------------------
(* The local path alone: a document is in the textarea, there is no        *)
(* credential, and handleProcess runs localExtractor on it.                *)

ExtractInit ==
    /\ rawText \in Documents
    /\ artifact = Null
    /\ status = Status("info", MsgReady)
    /\ processing = FALSE
    /\ apiKey = ""
    /\ slot = JSONstringify(rawText, Null)
    /\ phase = "mounted"
    /\ pc = "idle"
    /\ attempt = 0
    /\ delayMs = 0
    /\ runText = <<>>
    /\ requests = 0
    /\ delays = <<>>
    /\ failed = 0
    /\ callResult = "none"
    /\ returned = Null
    /\ lastError = ""
    /\ thrown = ""
    /\ usedLocal = FALSE
    /\ completed = FALSE
    /\ inFlight = 0
    /\ writeFailed = FALSE
    /\ loadRead = "missing"
    /\ now = 1
    /\ runs = 0

\* handleProcess without a credential: callGemini returns null, structured
\* is localExtractor(rawText), the result is built, set and persisted
LocalRun ==
    /\ phase = "mounted"
    /\ ~ButtonDisabled
    /\ NoCredential(apiKey)
    /\ ~completed
    /\ \E structured \in {localExtractor(rawText)} :
         \E result \in {BuildResult(structured, rawText, now)} :
           /\ artifact' = result
           /\ slot' = PersistEffect(slot, rawText, result, TRUE).slot
    /\ status' = FinalStatus(FALSE, MsgNoKey)
    /\ runText' = rawText
    /\ callResult' = "null"
    /\ usedLocal' = TRUE
    /\ completed' = TRUE
    /\ now' = now + 1
    /\ runs' = runs + 1
    /\ UNCHANGED <<rawText, processing, apiKey, phase, pc, attempt, delayMs,
                   requests, delays, failed, returned, lastError, thrown,
                   inFlight, writeFailed, loadRead>>

ExtractNext == LocalRun

ExtractSpec == ExtractInit /\ [][ExtractNext]_vars

----------------------------------------------------------------------------
(* Properties *)

ArtifactKeys == SchemaFields \cup {"source", "rawText", "processedAt"}
Settled == callResult \in {"null", "value", "threw"}

\* C1: with a credential, a call whose every attempt failed has issued
\* exactly 3 requests, has waited 500 ms and then 1000 ms and nothing after
\* the third attempt, and has thrown to its caller instead of returning.
C1_RetriesExhausted ==
    (apiKey # "" /\ Settled /\ failed = requests)
        => /\ requests = 3
           /\ delays = <<500, 1000>>
           /\ callResult = "threw"
           /\ returned = Null

C1_Witness == apiKey # "" /\ callResult = "threw" /\ failed = 3 /\ completed

\* C2: without a credential callGemini returns null and no request is ever
\* issued; a completed run then holds a local-extractor artifact and the
\* warning status about the missing API key.
C2_NoCredential ==
    apiKey = ""
        => /\ requests = 0
           /\ pc = "idle"
           /\ callResult \in {"none", "null"}
           /\ completed =>
                /\ callResult = "null"
                /\ usedLocal
                /\ artifact.kind = "object"
                /\ artifact.fields["source"] = LocalSource
                /\ status = Status("warning", MsgNoKey)

C2_Witness == apiKey = "" /\ completed /\ runs = 2

\* C3: with a credential, a run whose remote call threw after its retries has
\* completed all the same: the artifact is the local extraction of the run's
\* raw text, its source is "local-extractor", and the status is the warning
\* that the remote service is unavailable.
C3_FallbackAfterExhaustion ==
    (completed /\ callResult = "threw")
        => /\ apiKey # ""
           /\ phase = "mounted"
           /\ ~processing
           /\ pc = "idle"
           /\ usedLocal
           /\ artifact.kind = "object"
           /\ artifact.fields["source"] = LocalSource
           /\ artifact.fields["rawText"] = runText
           /\ \A k \in SchemaFields :
                artifact.fields[k] = Extracted[runText][k]
           /\ status = Status("warning", MsgUnavailable)

C3_Witness ==
    completed /\ callResult = "threw" /\ runText = DocIdText /\ ~writeFailed

\* C4: a run whose remote call returned a (truthy) result holds an artifact
\* with every field of that result except source, rawText and processedAt,
\* with source the remote-service identifier, and the success status of the
\* remote path; localExtractor was not called.
C4_RemoteResult ==
    (completed /\ callResult = "value" /\ JsTruthy(returned))
        => /\ artifact.kind = "object"
           /\ artifact.fields["source"] = GeminiSource
           /\ \A k \in DOMAIN Spread(returned) \ {"source", "rawText", "processedAt"} :
                /\ k \in DOMAIN artifact.fields
                /\ artifact.fields[k] = returned.fields[k]
           /\ status = Status("success", MsgGemini)
           /\ ~usedLocal

C4_Witness == completed /\ callResult = "value" /\ returned = PWithSource

\* C5: at most one handleProcess invocation is in flight.
C5_OneInFlight == inFlight <= 1 /\ (inFlight = 1 <=> pc # "idle")

C5_Witness == inFlight = 1 /\ runs = 2 /\ pc = "delaying"

\* C6: in every settled state whose latest storage write succeeded, the slot
\* holds the serialization of the current { rawText, artifact } pair.
C6_WriteThrough ==
    (phase = "mounted" /\ ~writeFailed) => slot = JSONstringify(rawText, artifact)

C6_Witness ==
    /\ phase = "mounted" /\ ~writeFailed /\ runs = 1
    /\ rawText = EmptyText /\ artifact.kind = "object"
    /\ artifact.fields["rawText"] = DocIdText

\* C7: a startup that finds a stored pair in the slot, and whose own writes
\* succeed, restores exactly that rawText and that artifact and leaves the
\* slot holding the same pair.
C7_RoundTrip ==
    [][(phase = "mounting" /\ phase' = "mounted" /\ slot.kind = "pair"
          /\ loadRead' = "pair" /\ ~writeFailed')
         => (rawText' = slot.rawText /\ artifact' = slot.artifact /\ slot' = slot)]_vars

\* C8: a startup that finds the key missing, or its value not valid JSON, or
\* cannot read it, completes with the default text, no artifact and the
\* initial status; a click that follows starts a run as after any startup.
C8_BestEffortLoad ==
    [][/\ (phase = "mounting" /\ phase' # "mounting"
             /\ loadRead' \in {"missing", "malformed", "unreadable"})
          => /\ phase' = "mounted"
             /\ rawText' = DEFAULT_TEXT
             /\ artifact' = Null
             /\ status' = Status("info", MsgReady)
             /\ ~processing'
       /\ (loadRead \in {"missing", "malformed", "unreadable"}
             /\ phase = "mounted" /\ runs' = runs + 1)
          => /\ phase' = "mounted"
             /\ runText' = rawText
             /\ IF apiKey = ""
                THEN completed' /\ ~processing' /\ artifact'.kind = "object"
                ELSE processing' /\ pc' = "fetching" /\ requests' = 1]_vars

C8_Witness ==
    /\ loadRead \in {"malformed", "unreadable"}
    /\ completed /\ artifact.fields["rawText"] = DEFAULT_TEXT

\* C9: a run that completes after a storage write has failed, or whose own
\* write fails, still completes: the new artifact and the final status are
\* in state and the processing flag is false again.
C9_WriteFailureHarmless ==
    [][(now' # now /\ (writeFailed \/ writeFailed'))
         => /\ phase' = "mounted"
            /\ completed'
            /\ ~processing'
            /\ pc' = "idle"
            /\ artifact'.kind = "object"
            /\ artifact' # artifact
            /\ artifact'.fields["processedAt"] = Timestamp(now)
            /\ status'.tone \in {"success", "warning"}
            /\ (writeFailed' => slot' = slot)]_vars

C9_Witness == completed /\ writeFailed /\ ~processing /\ slot.artifact # artifact

\* C10: the artifact of every completed run has exactly the keys
\* applicantName, documentId, issueDate, source, rawText and processedAt.
C10_ExactSchema ==
    completed => (artifact.kind = "object" /\ DOMAIN artifact.fields = ArtifactKeys)

\* C11: the artifact of every completed run, remote or local, carries as
\* rawText exactly the text the run was started with, also when the remote
\* payload has rawText or processedAt keys of its own; processedAt is the
\* clock reading of the run.
C11_RawTextIsInput ==
    completed
        => /\ artifact.kind = "object"
           /\ artifact.fields["rawText"] = runText
           /\ artifact.fields["processedAt"] = Timestamp(now - 1)

C11_Witness ==
    /\ completed /\ callResult = "value" /\ returned = PWithMeta
    /\ runText = DocIdText /\ artifact.fields["rawText"] = DocIdText

\* the characters of a text
CharsOf(t) == {t[i] : i \in 1..Len(t)}
\* v occurs in t as a contiguous piece
OccursIn(v, t) ==
    \E i \in 1..(Len(t) + 1) :
        i + Len(v) - 1 <= Len(t) /\ SubSeq(t, i, i + Len(v) - 1) = v
\* YYYY-MM-DD
IsoShaped(v) ==
    /\ Len(v) = 10
    /\ v[5] = "-" /\ v[8] = "-"
    /\ \A i \in {1, 2, 3, 4, 6, 7, 9, 10} : v[i] \in Digits

\* C12: on every document, the empty one and those whose label is followed
\* by whitespace only included, the local run completes with applicantName,
\* documentId and issueDate all present and non-empty: a name or an id is a
\* piece of the document without surrounding whitespace or "UNKNOWN", a date
\* is a YYYY-MM-DD string or "UNKNOWN"; the source is "local-extractor".
C12_LocalExtractorTotal ==
    completed
        => /\ artifact.kind = "object"
           /\ SchemaFields \subseteq DOMAIN artifact.fields
           /\ artifact.fields["source"] = LocalSource
           /\ \A k \in SchemaFields :
                /\ artifact.fields[k] # <<>>
                /\ artifact.fields[k] \in Seq(CharsOf(rawText) \cup CharsOf(UNKNOWN)
                                                \cup Digits \cup {"-"})
           /\ \A k \in {"applicantName", "documentId"} :
                \/ artifact.fields[k] = UNKNOWN
                \/ /\ OccursIn(artifact.fields[k], rawText)
                   /\ Trim(artifact.fields[k]) = artifact.fields[k]
           /\ \/ artifact.fields["issueDate"] = UNKNOWN
              \/ IsoShaped(artifact.fields["issueDate"])

\* two labels, each followed by whitespace only
C12_Witness ==
    /\ completed
    /\ rawText = LineIssueBlank \o <<"\n">> \o LineNameBlank
    /\ \A k \in SchemaFields : artifact.fields[k] = UNKNOWN

\* the run has ended: flag cleared, an artifact stamped by this completion,
\* a final status
RunCompleted ==
    /\ completed
    /\ ~processing
    /\ pc = "idle"
    /\ artifact.kind = "object"
    /\ artifact.fields["processedAt"] = Timestamp(now - 1)
    /\ status.tone \in {"success", "warning"}
    /\ status.message # MsgProcessing

\* C13: every started run completes. Without a credential the click itself
\* completes the run; with one, as long as every request settles and every
\* backoff timer fires, a run in flight leads to its completion, whatever
\* the attempts answer: the flag is false again, a new artifact is set and
\* the status is a success or a warning, never the 'Processing' one.
C13_EventuallyCompletes ==
    /\ [][(runs' = runs + 1 /\ apiKey = "") => RunCompleted']_vars
    /\ processing ~> RunCompleted

C13_Witness ==
    /\ RunCompleted /\ apiKey # "" /\ runs = 2
    /\ requests = 2 /\ callResult = "value" /\ returned = PNull

\* C14: without a credential, a run on the text of the artifact already in
\* state (the artifact of an earlier run on the same text, whatever happened
\* in between: edits, reloads, failed writes, another status) yields an
\* artifact with the same keys and the same value under every key except
\* processedAt.
C14_IdempotentOffline ==
    [][(apiKey = "" /\ runs' = runs + 1
          /\ artifact.kind = "object" /\ artifact.fields["rawText"] = rawText)
         => /\ artifact'.kind = "object"
            /\ DOMAIN artifact'.fields = DOMAIN artifact.fields
            /\ \A k \in DOMAIN artifact.fields \ {"processedAt"} :
                 artifact'.fields[k] = artifact.fields[k]]_vars

\* the second write failed, so the slot still holds the first artifact
C14_Witness ==
    /\ apiKey = "" /\ completed /\ runs = 2 /\ writeFailed
    /\ slot.kind = "pair" /\ slot.artifact.kind = "object"
    /\ artifact.fields["rawText"] = DocIdText
    /\ slot.artifact.fields["rawText"] = DocIdText
    /\ slot.artifact.fields["processedAt"] # artifact.fields["processedAt"]

\* C15: with a credential, no run ends with the warning that the API key
\* was not provided, whatever the remote text parses to.
C15_NoKeyWarningOnlyWithoutKey ==
    apiKey # "" => status.message # MsgNoKey

\* C16: a call that returned a parsed payload did so at its first
\* successful attempt k <= 3: it issued k requests of which the first k - 1
\* failed, waited 500 * 2^(i-1) ms after failed attempt i and nothing else,
\* returned a payload, and left no request and no timer behind.
C16_StopsAtFirstSuccess ==
    callResult = "value"
        => /\ apiKey # ""
           /\ requests \in 1..maxAttempts
           /\ failed = requests - 1
           /\ delays = [i \in 1..(requests - 1) |-> 500 * 2^(i - 1)]
           /\ returned \in Payloads
           /\ completed /\ ~processing
           /\ pc = "idle" /\ attempt = 0 /\ inFlight = 0

C16_Witness ==
    /\ callResult = "value" /\ returned = PFull
    /\ requests = 3 /\ delays = <<500, 1000>>

\* the responses that make an attempt fail, one or two per failure kind
FailureResponses == {r \in Responses : Attempt(r).kind = "threw"}
AttemptErrors == {Attempt(r).error : r \in FailureResponses}

\* what the catch block does with an error e caught at this attempt
HandledAsFailure(e) ==
    /\ failed' = failed + 1
    /\ lastError' = e
    /\ requests' = requests
    /\ IF attempt < maxAttempts
       THEN /\ pc' = "delaying"
            /\ attempt' = attempt
            /\ delays' = Append(delays, delayMs)
            /\ callResult' = "pending"
            /\ thrown' = ""
            /\ processing'
       ELSE /\ pc' = "idle"
            /\ delays' = delays
            /\ callResult' = "threw"
            /\ thrown' = e

\* C17: while a request is pending, each failure kind (transport rejection,
\* non-success status, unreadable body, empty or absent text, JSON parse
\* failure) can settle it, and every failure is handled alike: it uses up
\* the attempt and, before the third, starts the same backoff; at the third
\* the error thrown to the caller is the error of that attempt.
C17_FailuresRetriedAlike ==
    /\ [](pc = "fetching"
            => \A resp \in FailureResponses :
                 ENABLED (FetchSettles(resp) /\ HandledAsFailure(Attempt(resp).error)))
    /\ [][(pc = "fetching" /\ failed' = failed + 1)
            => \E e \in AttemptErrors : HandledAsFailure(e)]_vars
    /\ [](callResult = "threw" => (thrown = lastError /\ thrown \in AttemptErrors))

C17_Witness ==
    /\ callResult = "threw" /\ thrown = ErrParse /\ delays = <<500, 1000>>
    /\ failed = 3 /\ completed

\* the captures of a document, as localExtractor takes them
PassportOf(t) == LastCapture(PassportPattern, t)
DocumentIdOf(t) == LastCapture(DocumentIdPattern, t)
IssueDateOf(t) == parseDate(OrEmpty(LastCapture(IssueDatePattern, t)))
IssuedOnOf(t) == parseDate(OrEmpty(LastCapture(IssuedOnPattern, t)))

\* C18: documentId is the 'Passport No' capture when it is non-empty,
\* otherwise the 'Document ID' capture, otherwise "UNKNOWN"; issueDate is
\* the normalized 'Issue Date' capture when normalization yields a date,
\* otherwise the normalized 'Issued on' capture (also when an 'Issue Date'
\* label matched but gave no date), otherwise "UNKNOWN". The order in the
\* document does not matter.
C18_FixedPriority ==
    completed
        => /\ artifact.fields["documentId"] =
                IF Truthy(PassportOf(rawText)) THEN PassportOf(rawText).val
                ELSE IF Truthy(DocumentIdOf(rawText)) THEN DocumentIdOf(rawText).val
                ELSE UNKNOWN
           /\ artifact.fields["issueDate"] =
                IF Truthy(IssueDateOf(rawText)) THEN IssueDateOf(rawText).val
                ELSE IF Truthy(IssuedOnOf(rawText)) THEN IssuedOnOf(rawText).val
                ELSE UNKNOWN
           /\ rawText = LineDocumentId \o <<"\n">> \o LinePassportLower
                => artifact.fields["documentId"] = <<"x","9">>
           /\ rawText = LineDocumentId \o <<"\n">> \o LineOther
                => artifact.fields["documentId"] = <<"A","B","1","2">>
           /\ rawText = LineIssuedRoll \o <<"\n">> \o LineIssueIso
                => artifact.fields["issueDate"] =
                     <<"2","0","2","1","-","0","5","-","1","7">>
           /\ rawText = LineIssuedRoll \o <<"\n">> \o LineIssueWords
                => artifact.fields["issueDate"] =
                     <<"2","0","2","1","-","0","3","-","0","3">>

\* both date labels give a date, 'Issued on' first in the document
C18_Witness ==
    /\ completed
    /\ rawText = LineIssuedRoll \o <<"\n">> \o LineIssueIso
    /\ Truthy(IssueDateOf(rawText)) /\ Truthy(IssuedOnOf(rawText))
    /\ IssuedOnOf(rawText) # IssueDateOf(rawText)
    /\ artifact.fields["issueDate"] = IssueDateOf(rawText).val

\* C19: after a completed run the status agrees with the path taken: the
\* tone is success exactly when the artifact's source is the remote-service
\* identifier and warning exactly when it is "local-extractor"; the success
\* message of the built-in parser is never shown.
C19_StatusAgreesWithPath ==
    /\ status.message # MsgBuiltIn
    /\ completed
         => /\ artifact.fields["source"] \in {GeminiSource, LocalSource}
            /\ status.tone = "success" <=> artifact.fields["source"] = GeminiSource
            /\ status.tone = "warning" <=> artifact.fields["source"] = LocalSource
            /\ usedLocal <=> artifact.fields["source"] = LocalSource

C19_Witness ==
    /\ completed /\ apiKey # "" /\ callResult = "value" /\ returned = PFalse
    /\ artifact.fields["source"] = LocalSource /\ status.tone = "warning"

\* a step that leaves a run in flight changes neither the raw text, nor the
\* artifact, nor the slot
FrozenInFlight ==
    (processing /\ processing')
        => (rawText' = rawText /\ artifact' = artifact /\ slot' = slot)

\* C20 as stated: nothing changes in flight, and at completion the new
\* artifact's rawText is the raw text in state and the raw text in the slot.
C20_FrozenThenPersisted ==
    [][/\ FrozenInFlight
       /\ (now' # now)
            => /\ rawText' = rawText
               /\ artifact'.fields["rawText"] = rawText'
               /\ slot'.kind = "pair"
               /\ slot'.rawText = rawText']_vars

\* C20 amended: the slot agrees as well unless both the latest write before
\* the run and the write of the completion failed.
C20_FrozenThenState ==
    [][/\ FrozenInFlight
       /\ (now' # now)
            => /\ rawText' = rawText
               /\ artifact'.fields["rawText"] = rawText'
               /\ (~writeFailed \/ ~writeFailed')
                    => (slot'.kind = "pair" /\ slot'.rawText = rawText')]_vars

\* a run with retries completed; its own write failed, the one before did not
C20_Witness ==
    /\ completed /\ callResult = "threw" /\ writeFailed
    /\ rawText = DocIdText /\ artifact.fields["rawText"] = DocIdText
    /\ slot.kind = "pair" /\ slot.rawText = DocIdText /\ slot.artifact # artifact

====
